---- MODULE Spec2Model ----
(***************************************************************************)
(* Model of AmpStoryInteractive                                            *)
(* (extensions/amp-story/1.0/amp-story-interactive.js).                    *)
(*                                                                         *)
(* Two parts:                                                              *)
(*   - preprocessPercentages_, the pure function that turns response       *)
(*     counts into display percentages (specification SpecPct);            *)
(*   - the response lifecycle of one widget instance: layoutCallback, the  *)
(*     retrieval of the aggregate data, taps, the reactions registered on  *)
(*     backendDataPromise_, mutateElement callbacks and the POST request   *)
(*     (specification Spec).                                               *)
(*                                                                         *)
(* Option positions are 1-based here: position k is optionIndex_ k-1.      *)
(* Percentages that the code keeps as strings with two decimals            *)
(* (toFixed(2)) are kept as integers counting hundredths: "33.33" is 3333. *)
(* For the count vectors of SpecPct no quotient 100*c/t lies on a half of a  *)
(* hundredth that a double cannot hold, so rounding the exact quotient is    *)
(* what toFixed(2) returns.                                                  *)
(***************************************************************************)
EXTENDS Integers, Sequences, FiniteSets, TLC

\* ---------------------------------------------------------------- bounds
MaxCount == 5         \* largest totalCount of one option in SpecPct
MaxRemoteCount == 1   \* largest totalCount of one entry of a retrieved payload
NumOptions == 2       \* options of the widget in Spec
MaxTaps == 3          \* click events delivered to the widget in Spec
BaseCount == 68       \* SpecPct also takes three counts in
Spread == 2           \*   BaseCount..BaseCount + Spread (totals above 200)

\* ------------------------------------------------------ program constants
MinOptions == 2       \* constructor default bounds = [2, 4]
MaxOptions == 4
Hundred == 100        \* the literal 100 of preprocessPercentages_

\* JavaScript values that are not integers
NaN == -1             \* the not-a-number value
Undefined == -2       \* a hole of a sparse array

NoOption == 0         \* a click target outside every option element

VARIABLES
    counts,              \* SpecPct: totalCount of each option, the input
    computed,            \* SpecPct: preprocessPercentages_ has returned
    finalPercentages,    \* SpecPct: the value it returned
    endpoint,            \* the endpoint attribute: "none", "valid", "invalid"
    devBuild,            \* devAssert throws (development build) or is a no-op
    backendDataPromise_, \* "null", "pending", "fulfilled", "rejected"
    response,            \* what the GET request produced
    hasUserSelection_,
    optionsData_,        \* [isNull, entries]
    reactions,           \* options whose handleOptionSelection_ reaction on
                         \* backendDataPromise_ has not run yet
    mutateQueue,         \* mutateElement callbacks not run yet
    selectedOptions,     \* options with class ...-option-selected
    rootClasses,         \* classes added to rootEl_
    percentageUpdates,   \* the argument of each updateOptionPercentages_ call
    analyticsEvents,     \* optionIndex_ of each triggerEvent call
    postRequests,        \* POST requests handed to the request service
    taps                 \* click events delivered so far

pctVars == <<counts, computed, finalPercentages>>

widgetVars == <<endpoint, devBuild, backendDataPromise_, response,
                hasUserSelection_, optionsData_, reactions, mutateQueue,
                selectedOptions, rootClasses, percentageUpdates,
                analyticsEvents, postRequests, taps>>

vars == <<counts, computed, finalPercentages, endpoint, devBuild,
          backendDataPromise_, response, hasUserSelection_, optionsData_,
          reactions, mutateQueue, selectedOptions, rootClasses,
          percentageUpdates, analyticsEvents, postRequests, taps>>

\* ------------------------------------------------- preprocessPercentages_

RECURSIVE SumSeq(_)
\* Array.prototype.reduce((acc, x) => acc + x, 0)
SumSeq(s) == IF s = <<>> THEN 0 ELSE Head(s) + SumSeq(Tail(s))

\* ((100 * c) / t).toFixed(2), in hundredths; t > 0.  The quotient is rounded
\* to the nearest hundredth, a half rounding up.
ToFixedRatio(c, t) == (2 * Hundred * Hundred * c + t) \div (2 * t)

\* Math.round of a two-decimal string: halves round up
MathRound(h) == IF h = NaN THEN NaN ELSE (h + 50) \div Hundred

\* Math.floor of a two-decimal string
MathFloor(h) == IF h = NaN THEN NaN ELSE h \div Hundred

\* (percentage - Math.floor(percentage)).toFixed(2)
Remainder(h) == h % Hundred

\* (percentage - (2 * (percentage - Math.floor(percentage))) / 3).toFixed(2):
\* h - 2*Remainder(h)/3 rounded to the nearest hundredth (thirds never tie)
DivideRemainder(h) == (2 * (3 * h - 2 * Remainder(h)) + 3) \div 6

\* the comparator of preserveOriginal.sort: left goes before right
Before(left, right) ==
    \/ left.remainder > right.remainder
    \/ left.remainder = right.remainder /\ left.value > right.value

RECURSIVE SortObjs(_)
\* preserveOriginal.sort(...): stable sort by remainder, then value, descending
SortObjs(objs) ==
    IF objs = <<>> THEN <<>>
    ELSE LET first == CHOOSE k \in 1..Len(objs) :
                         /\ \A m \in 1..Len(objs) : ~Before(objs[m], objs[k])
                         /\ \A m \in 1..(k - 1) : Before(objs[k], objs[m])
             rest == [m \in 1..(Len(objs) - 1) |->
                         IF m < first THEN objs[m] ELSE objs[m + 1]]
         IN <<objs[first]>> \o SortObjs(rest)

RECURSIVE AssignAll(_, _, _)
\* ties.forEach(o => finalPercentages[o.originalIndex] = floor(o.value) + bonus)
AssignAll(final, objs, bonus) ==
    IF objs = <<>> THEN final
    ELSE AssignAll([final EXCEPT ![Head(objs).originalIndex] =
                        MathFloor(Head(objs).value) + bonus],
                   Tail(objs), bonus)

RECURSIVE RoundUpLoopSplitTies(_, _, _)
\* mutant: plain largest remainder, one entry at a time, equal values apart
RoundUpLoopSplitTies(remainder, preserveOriginal, final) ==
    IF remainder > 0 /\ preserveOriginal # <<>>
    THEN LET highestRemainderObj == preserveOriginal[1]
             toRoundUp == highestRemainderObj.remainder # 0
         IN RoundUpLoopSplitTies(remainder - (IF toRoundUp THEN 1 ELSE 0),
                                 Tail(preserveOriginal),
                                 AssignAll(final, <<highestRemainderObj>>,
                                           IF toRoundUp THEN 1 ELSE 0))
    ELSE AssignAll(final, preserveOriginal, 0)

RECURSIVE RoundUpLoopNoTail(_, _, _)
\* mutant: the entries left when the budget is spent are not written
RoundUpLoopNoTail(remainder, preserveOriginal, final) ==
    IF remainder > 0 /\ preserveOriginal # <<>>
    THEN LET highestRemainderObj == preserveOriginal[1]
             IsTie(o) == o.value = highestRemainderObj.value
             NotTie(o) == o.value # highestRemainderObj.value
             ties == SelectSeq(preserveOriginal, IsTie)
             toRoundUp == /\ Len(ties) <= remainder
                          /\ highestRemainderObj.remainder # 0
         IN RoundUpLoopNoTail(remainder - (IF toRoundUp THEN Len(ties) ELSE 0),
                              SelectSeq(preserveOriginal, NotTie),
                              AssignAll(final, ties, IF toRoundUp THEN 1 ELSE 0))
    ELSE final

RECURSIVE RoundUpLoopBonusForWhole(_, _, _)
\* mutant: a group with remainder '0.00' may be rounded up as well
RoundUpLoopBonusForWhole(remainder, preserveOriginal, final) ==
    IF remainder > 0 /\ preserveOriginal # <<>>
    THEN LET highestRemainderObj == preserveOriginal[1]
             IsTie(o) == o.value = highestRemainderObj.value
             NotTie(o) == o.value # highestRemainderObj.value
             ties == SelectSeq(preserveOriginal, IsTie)
             toRoundUp == Len(ties) <= remainder
         IN RoundUpLoopBonusForWhole(
                remainder - (IF toRoundUp THEN Len(ties) ELSE 0),
                SelectSeq(preserveOriginal, NotTie),
                AssignAll(final, ties, IF toRoundUp THEN 1 ELSE 0))
    ELSE AssignAll(final, preserveOriginal, 0)

RECURSIVE RoundUpLoopTiesOverBudget(_, _, _)
\* mutant: a tie group is rounded up even when it is larger than the budget
RoundUpLoopTiesOverBudget(remainder, preserveOriginal, final) ==
    IF remainder > 0 /\ preserveOriginal # <<>>
    THEN LET highestRemainderObj == preserveOriginal[1]
             IsTie(o) == o.value = highestRemainderObj.value
             NotTie(o) == o.value # highestRemainderObj.value
             ties == SelectSeq(preserveOriginal, IsTie)
             toRoundUp == highestRemainderObj.remainder # 0
         IN RoundUpLoopTiesOverBudget(
                remainder - (IF toRoundUp THEN Len(ties) ELSE 0),
                SelectSeq(preserveOriginal, NotTie),
                AssignAll(final, ties, IF toRoundUp THEN 1 ELSE 0))
    ELSE AssignAll(final, preserveOriginal, 0)

RECURSIVE RoundUpLoop(_, _, _)
\* while (remainder > 0 && preserveOriginal.length !== 0) {...} followed by the
\* preserveOriginal.forEach that floors what is left
RoundUpLoop(remainder, preserveOriginal, final) ==
    IF remainder > 0 /\ preserveOriginal # <<>>
    THEN LET highestRemainderObj == preserveOriginal[1]
             IsTie(o) == o.value = highestRemainderObj.value
             NotTie(o) == o.value # highestRemainderObj.value
             ties == SelectSeq(preserveOriginal, IsTie)
             toRoundUp == /\ Len(ties) <= remainder
                          /\ highestRemainderObj.remainder # 0
         IN RoundUpLoop(remainder - (IF toRoundUp THEN Len(ties) ELSE 0),
                        SelectSeq(preserveOriginal, NotTie),
                        AssignAll(final, ties, IF toRoundUp THEN 1 ELSE 0))
    ELSE AssignAll(final, preserveOriginal, 0)

\* mutant: the budget is one point too large
RemainderBudgetOffByOne(total) == Hundred - total + 1

\* let remainder = 100 - total
RemainderBudget(total) == Hundred - total

\* the percentages after the optional "divide remainders by three" step
CorrectedPercentages(percentages) ==
    LET total == SumSeq([i \in DOMAIN percentages |-> MathRound(percentages[i])])
    IN IF total > Hundred
       THEN [i \in DOMAIN percentages |-> DivideRemainder(percentages[i])]
       ELSE percentages

preprocessPercentages_(optionsData) ==
    LET n == Len(optionsData)
        totalResponseCount == SumSeq([i \in 1..n |-> optionsData[i].totalCount])
    IN IF totalResponseCount = 0
       THEN \* 0/0 is NaN and every later step keeps it
            [i \in 1..n |-> NaN]
       ELSE
         LET raw == [i \in 1..n |->
                        ToFixedRatio(optionsData[i].totalCount, totalResponseCount)]
             percentages == CorrectedPercentages(raw)
             total == SumSeq([i \in 1..n |-> MathRound(percentages[i])])
         IN IF total = Hundred
            THEN [i \in 1..n |-> MathRound(percentages[i])]
            ELSE LET preserveOriginal ==
                         [i \in 1..n |-> [originalIndex |-> i,
                                          value |-> percentages[i],
                                          remainder |-> Remainder(percentages[i])]]
                 IN RoundUpLoop(RemainderBudget(total),
                                SortObjs(preserveOriginal),
                                [i \in 1..n |-> Undefined])

\* an entry of optionsData_ / of a retrieved payload
Entry(c, s) == [totalCount |-> c, selectedByUser |-> s]

\* ------------------------------------------------------------ the widget

\* this.optionsData_ = null / an array of entries
NullData == [isNull |-> TRUE, entries |-> <<>>]
Data(entries) == [isNull |-> FALSE, entries |-> entries]

\* what executeInteractiveRequest_('GET') can hand to the rest of the chain
NoResponse == [kind |-> "none", options |-> <<>>]
Payloads ==
    UNION {[1..n -> {Entry(c, s) : c \in 0..MaxRemoteCount, s \in BOOLEAN}] :
              n \in 0..(NumOptions + 1)}
Responses ==
    {[kind |-> k, options |-> <<>>] : k \in {"requestError", "noOptions"}}
    \cup {[kind |-> "options", options |-> p] : p \in Payloads}

\* the state the constructor leaves
Constructed ==
    /\ backendDataPromise_ = "null"
    /\ response = NoResponse
    /\ hasUserSelection_ = FALSE
    /\ optionsData_ = NullData
    /\ reactions = <<>>
    /\ mutateQueue = <<>>
    /\ selectedOptions = {}
    /\ rootClasses = {}
    /\ percentageUpdates = <<>>
    /\ analyticsEvents = <<>>
    /\ postRequests = <<>>
    /\ taps = 0

Settled == backendDataPromise_ \in {"fulfilled", "rejected"}

\* a reaction of a settled promise is a microtask: it runs before any other
\* event is handled
MicrotaskPending == Settled /\ reactions # <<>>

\* element.hasAttribute('endpoint')
HasEndpoint == endpoint # "none"

\* assertAbsoluteHttpOrHttpsUrl(url) in executeInteractiveRequest_
EndpointIsValid == endpoint = "valid"

\* analyticsService_.triggerEvent(INTERACTIVE, ...) with the option's index
triggerAnalytics_(events, option) == Append(events, option)

\* layoutCallback: backendDataPromise_ = hasAttribute('endpoint')
\*   ? retrieveInteractiveData_() : Promise.resolve()
layoutCallback ==
    /\ backendDataPromise_ = "null"
    /\ backendDataPromise_' =
           IF ~HasEndpoint THEN "fulfilled"
           ELSE IF ~EndpointIsValid THEN "rejected"  \* Promise.reject(ENDPOINT_INVALID_ERROR)
           ELSE "pending"
    /\ UNCHANGED <<pctVars, endpoint, devBuild, response, hasUserSelection_,
                   optionsData_, reactions, mutateQueue, selectedOptions,
                   rootClasses, percentageUpdates, analyticsEvents,
                   postRequests, taps>>

\* handleTap_: if (this.hasUserSelection_) return
TapIgnored == hasUserSelection_

\* mutant: the tap handler sets the flag itself, before the promise settles
handleTap_LocksAtOnce(target) ==
    /\ ~MicrotaskPending
    /\ taps < MaxTaps
    /\ taps' = taps + 1
    /\ reactions' =
           IF TapIgnored \/ target = NoOption \/ backendDataPromise_ = "null"
           THEN reactions ELSE Append(reactions, target)
    /\ hasUserSelection_' =
           (hasUserSelection_ \/ (target # NoOption /\ backendDataPromise_ # "null"))
    /\ UNCHANGED <<pctVars, endpoint, devBuild, backendDataPromise_, response,
                   optionsData_, mutateQueue, selectedOptions, rootClasses,
                   percentageUpdates, analyticsEvents, postRequests>>

\* handleTap_(e) with e.target inside option `target` (or inside none), up to
\* and including handleOptionSelection_'s backendDataPromise_.then(...).catch(...)
handleTap_(target) ==
    /\ ~MicrotaskPending
    /\ taps < MaxTaps
    /\ taps' = taps + 1
    /\ reactions' =
           IF TapIgnored \/ target = NoOption THEN reactions
           ELSE IF backendDataPromise_ = "null"
                THEN reactions   \* null.then: TypeError out of the listener
                ELSE Append(reactions, target)
    /\ UNCHANGED <<pctVars, endpoint, devBuild, backendDataPromise_, response,
                   hasUserSelection_, optionsData_, mutateQueue,
                   selectedOptions, rootClasses, percentageUpdates,
                   analyticsEvents, postRequests>>

\* mutant: only a missing response is refused, if (!response)
IsInvalidResponseOnlyMissing(r) == r.kind = "requestError"

\* handleSuccessfulDataRetrieval_: if (!(response && response['options']))
IsInvalidResponse(r) == r.kind # "options"

\* response['options'].slice(0, numOptions)
VisibleOptions(options) ==
    SubSeq(options, 1, IF Len(options) < NumOptions THEN Len(options) ELSE NumOptions)

\* data.forEach((response, index) => { if (response.selectedByUser) ... })
SelectedByUser(data) == {i \in 1..Len(data) : data[i].selectedByUser}

RECURSIVE RetrievalTasks(_, _)
\* one mutateElement callback for every entry flagged selectedByUser, in order
RetrievalTasks(data, index) ==
    IF index > Len(data) THEN <<>>
    ELSE (IF data[index].selectedByUser
          THEN <<[from |-> "retrieval", option |-> index]>> ELSE <<>>)
         \o RetrievalTasks(data, index + 1)

\* mutant: the post-selection render is requested but the flag is not set
updateComponentOnDataRetrieval_NoLock(data) ==
    /\ optionsData_' = Data(data)
    /\ hasUserSelection_' = hasUserSelection_
    /\ mutateQueue' = mutateQueue \o RetrievalTasks(data, 1)

\* updateComponentOnDataRetrieval_(data)
updateComponentOnDataRetrieval_(data) ==
    /\ optionsData_' = Data(data)
    /\ hasUserSelection_' = (hasUserSelection_ \/ SelectedByUser(data) # {})
    /\ mutateQueue' = mutateQueue \o RetrievalTasks(data, 1)

\* The GET request settles and the chain of retrieveInteractiveData_ runs to
\* its end: the .catch of executeRequest, handleSuccessfulDataRetrieval_, and
\* the settlement of backendDataPromise_.
retrieveInteractiveData_(r) ==
    /\ ~MicrotaskPending
    /\ backendDataPromise_ = "pending"
    /\ response' = r
    /\ IF IsInvalidResponse(r)
       THEN /\ backendDataPromise_' = IF devBuild THEN "rejected"  \* devAssert throws
                                      ELSE "fulfilled"              \* dev().error; return
            /\ UNCHANGED <<optionsData_, hasUserSelection_, mutateQueue>>
       ELSE /\ backendDataPromise_' = "fulfilled"
            /\ updateComponentOnDataRetrieval_(VisibleOptions(r.options))
    /\ UNCHANGED <<pctVars, endpoint, devBuild, reactions, selectedOptions,
                   rootClasses, percentageUpdates, analyticsEvents,
                   postRequests, taps>>

\* getClientId_() rejects: executeInteractiveRequest_('GET') rejects with it
clientIdRejected ==
    /\ ~MicrotaskPending
    /\ backendDataPromise_ = "pending"
    /\ response' = [kind |-> "cidError", options |-> <<>>]
    /\ backendDataPromise_' = "rejected"
    /\ UNCHANGED <<pctVars, endpoint, devBuild, hasUserSelection_, optionsData_,
                   reactions, mutateQueue, selectedOptions, rootClasses,
                   percentageUpdates, analyticsEvents, postRequests, taps>>

\* mutant: the .then callback does not look at the flag again
ReactionNeverIgnored == FALSE

\* the .then callback of handleOptionSelection_: if (this.hasUserSelection_) return
ReactionIgnored == hasUserSelection_

\* mutant: the flag of the tapped entry is set and every other entry is
\* reset to a fresh, unselected one
ApplyLocalSelectionResetsOthers(entries, option) ==
    [k \in 1..Len(entries) |->
        IF k = option THEN Entry(entries[k].totalCount + 1, TRUE)
        ELSE Entry(0, FALSE)]

\* optionsData_[i]['totalCount']++; optionsData_[i]['selectedByUser'] = true
ApplyLocalSelection(entries, option) ==
    [entries EXCEPT ![option] = Entry(entries[option].totalCount + 1, TRUE)]

\* optionsData_[optionEl.optionIndex_] is undefined: reading ['totalCount'] throws
LocalSelectionThrows(option) ==
    ~optionsData_.isNull /\ option > Len(optionsData_.entries)

\* if (this.element.hasAttribute('endpoint')) executeInteractiveRequest_('POST', i)
\* hands a request to the request service when the endpoint is a valid URL
PostsAfterSelection(option) ==
    IF HasEndpoint /\ EndpointIsValid
    THEN Append(postRequests, [optionSelected |-> option, status |-> "inflight"])
    ELSE postRequests

\* mutant: no .catch callback, a rejected promise drops the selection
CatchCallbackMissing(events, option) ==
    /\ analyticsEvents' = events
    /\ UNCHANGED <<hasUserSelection_, mutateQueue, optionsData_, postRequests>>

\* the .catch callback of handleOptionSelection_
CatchCallback(events, option) ==
    /\ analyticsEvents' = triggerAnalytics_(events, option)
    /\ hasUserSelection_' = TRUE
    /\ mutateQueue' = Append(mutateQueue, [from |-> "catch", option |-> option])
    /\ UNCHANGED <<optionsData_, postRequests>>

\* mutant: with optionsData_ null the .then callback creates the entries
\* itself, the tapped one with totalCount 1 and selectedByUser true
ThenCallbackSynthesizes(option) ==
    IF ReactionIgnored
    THEN UNCHANGED <<analyticsEvents, hasUserSelection_, optionsData_,
                     mutateQueue, postRequests>>
    ELSE IF LocalSelectionThrows(option)
    THEN CatchCallback(triggerAnalytics_(analyticsEvents, option), option)
    ELSE /\ analyticsEvents' = triggerAnalytics_(analyticsEvents, option)
         /\ hasUserSelection_' = TRUE
         /\ optionsData_' =
                IF optionsData_.isNull
                THEN Data([k \in 1..NumOptions |->
                              Entry(IF k = option THEN 1 ELSE 0, k = option)])
                ELSE Data(ApplyLocalSelection(optionsData_.entries, option))
         /\ mutateQueue' = Append(mutateQueue, [from |-> "then", option |-> option])
         /\ postRequests' = PostsAfterSelection(option)

\* the .then callback of handleOptionSelection_, and the .catch callback when
\* it throws
ThenCallback(option) ==
    IF ReactionIgnored
    THEN UNCHANGED <<analyticsEvents, hasUserSelection_, optionsData_,
                     mutateQueue, postRequests>>
    ELSE IF LocalSelectionThrows(option)
    THEN \* triggerAnalytics_ and hasUserSelection_ = true ran before the throw
         CatchCallback(triggerAnalytics_(analyticsEvents, option), option)
    ELSE /\ analyticsEvents' = triggerAnalytics_(analyticsEvents, option)
         /\ hasUserSelection_' = TRUE
         /\ optionsData_' =
                IF optionsData_.isNull THEN optionsData_
                ELSE Data(ApplyLocalSelection(optionsData_.entries, option))
         /\ mutateQueue' = Append(mutateQueue, [from |-> "then", option |-> option])
         /\ postRequests' = PostsAfterSelection(option)

\* The oldest reaction registered by handleOptionSelection_ runs:
\* .then(...) when the promise is fulfilled, .catch(...) when it is rejected
\* or when the .then callback threw.
handleOptionSelection_ ==
    /\ MicrotaskPending
    /\ reactions' = Tail(reactions)
    /\ IF backendDataPromise_ = "fulfilled"
       THEN ThenCallback(Head(reactions))
       ELSE CatchCallback(analyticsEvents, Head(reactions))
    /\ UNCHANGED <<pctVars, endpoint, devBuild, backendDataPromise_, response,
                   selectedOptions, rootClasses, percentageUpdates, taps>>

\* updateOptionPercentages_(data): abstract here, the call and its argument
\* are recorded
updateOptionPercentages_(updates, data) == Append(updates, data)

\* updateToPostSelectionState_(selectedOption): the classes of rootEl_
PostSelectionClasses ==
    rootClasses \cup {"post-selection"}
        \cup (IF optionsData_.isNull THEN {} ELSE {"has-data"})

\* the oldest mutateElement callback runs
mutateElement ==
    /\ ~MicrotaskPending
    /\ mutateQueue # <<>>
    /\ LET task == Head(mutateQueue)
       IN /\ mutateQueue' = Tail(mutateQueue)
          /\ percentageUpdates' =
                 IF task.from = "retrieval"
                    \/ (task.from = "then" /\ ~optionsData_.isNull)
                 THEN updateOptionPercentages_(percentageUpdates, optionsData_.entries)
                 ELSE percentageUpdates
          /\ selectedOptions' = selectedOptions \cup {task.option}
          /\ rootClasses' = PostSelectionClasses
    /\ UNCHANGED <<pctVars, endpoint, devBuild, backendDataPromise_, response,
                   hasUserSelection_, optionsData_, reactions,
                   analyticsEvents, postRequests, taps>>

\* mutant: a failed POST undoes the selection
postSettlesWithRollback(ok) ==
    /\ ~MicrotaskPending
    /\ \E k \in 1..Len(postRequests) :
          /\ postRequests[k].status = "inflight"
          /\ postRequests' = [postRequests EXCEPT
                                 ![k].status = IF ok THEN "ok" ELSE "failed"]
    /\ hasUserSelection_' = (hasUserSelection_ /\ ok)
    /\ UNCHANGED <<pctVars, endpoint, devBuild, backendDataPromise_, response,
                   optionsData_, reactions, mutateQueue, selectedOptions,
                   rootClasses, percentageUpdates, analyticsEvents, taps>>

\* requestService_.executeRequest(url, {method: 'POST', ...}) settles;
\* .catch((err) => dev().error(TAG, err)) only logs a failure
postSettles(ok) ==
    /\ ~MicrotaskPending
    /\ \E k \in 1..Len(postRequests) :
          /\ postRequests[k].status = "inflight"
          /\ postRequests' = [postRequests EXCEPT
                                 ![k].status = IF ok THEN "ok" ELSE "failed"]
    /\ UNCHANGED <<pctVars, endpoint, devBuild, backendDataPromise_, response,
                   hasUserSelection_, optionsData_, reactions, mutateQueue,
                   selectedOptions, rootClasses, percentageUpdates,
                   analyticsEvents, taps>>

Init ==
    /\ counts = <<>>
    /\ computed = FALSE
    /\ finalPercentages = <<>>
    /\ endpoint \in {"none", "valid", "invalid"}
    /\ devBuild \in BOOLEAN
    /\ Constructed

Next ==
    \/ layoutCallback
    \/ \E target \in {NoOption} \cup (1..NumOptions) : handleTap_(target)
    \/ \E r \in Responses : retrieveInteractiveData_(r)
    \/ clientIdRejected
    \/ handleOptionSelection_
    \/ mutateElement
    \/ \E ok \in BOOLEAN : postSettles(ok)

Spec == Init /\ [][Next]_vars

\* The GET request settles one way or the other
retrievalSettles ==
    \/ \E r \in Responses : retrieveInteractiveData_(r)
    \/ clientIdRejected

\* Spec with what the platform schedules: a pending request settles, a
\* reaction of a settled promise runs, a mutateElement callback runs
FairSpec ==
    /\ Spec
    /\ WF_vars(retrievalSettles)
    /\ WF_vars(handleOptionSelection_)
    /\ WF_vars(mutateElement)

\* --------------------------------------------------------------- SpecPct
\* three options with nearly equal, large counts
CloseCountVectors == [1..3 -> BaseCount..(BaseCount + Spread)]

CountVectors ==
    UNION {[1..n -> 0..MaxCount] : n \in MinOptions..MaxOptions}
        \cup CloseCountVectors

InitPct ==
    /\ counts \in CountVectors
    /\ computed = FALSE
    /\ finalPercentages = <<>>
    /\ endpoint = "none"
    /\ devBuild = FALSE
    /\ Constructed

Preprocess ==
    /\ ~computed
    /\ computed' = TRUE
    /\ finalPercentages' =
           preprocessPercentages_([i \in DOMAIN counts |-> Entry(counts[i], FALSE)])
    /\ UNCHANGED <<counts, widgetVars>>

NextPct == Preprocess

SpecPct == InitPct /\ [][NextPct]_vars

\* ================================================================ claims

\* the retained entries of the payload that are flagged selectedByUser
RemoteSelected ==
    IF response.kind = "options"
    THEN SelectedByUser(VisibleOptions(response.options)) ELSE {}

\* options rendered as selected or about to be by a queued mutateElement callback
SelectionRequested ==
    selectedOptions \cup {mutateQueue[k].option : k \in 1..Len(mutateQueue)}

\* the retrieval failed: invalid endpoint, rejected client id, request error,
\* or a payload without the options field
RetrievalFailed ==
    \/ endpoint = "invalid" /\ backendDataPromise_ = "rejected"
    \/ response.kind \in {"cidError", "requestError", "noOptions"}

\* the independently rounded percentages of preprocessPercentages_, after the
\* "divide remainders by three" step
RoundedTotal(cs) ==
    LET t == SumSeq(cs)
        p == CorrectedPercentages([i \in DOMAIN cs |-> ToFixedRatio(cs[i], t)])
    IN SumSeq([i \in DOMAIN cs |-> MathRound(p[i])])

\* C1 (as stated): for every count vector with positive total the returned
\* percentages sum to exactly 100.
C1_SumIsExactly100 ==
    (computed /\ SumSeq(counts) > 0) => SumSeq(finalPercentages) = Hundred

\* C1 (amended): for 2 to 4 counts with positive total the returned
\* percentages sum to at most 100 and to at least 100 - (n - 1), and to exactly
\* 100 whenever the independently rounded percentages total 100.
C1_SumAtMost100 ==
    (computed /\ SumSeq(counts) > 0) =>
        /\ SumSeq(finalPercentages) <= Hundred
        /\ SumSeq(finalPercentages) >= Hundred - (Len(counts) - 1)
        /\ (RoundedTotal(counts) = Hundred => SumSeq(finalPercentages) = Hundred)

\* C1 witness: a tie group of three blocks the last point
C1_Witness ==
    computed /\ counts = <<1, 1, 1>> /\ finalPercentages = <<33, 33, 33>>

\* C2 (as stated): at most one analytics event is emitted by one widget.
C2_AtMostOneAnalyticsEvent == Len(analyticsEvents) <= 1

\* C3 (as stated): once a tap has locked the widget, a further tap changes
\* neither the analytics events, nor the stored entries, nor the options
\* rendered (or queued to be rendered) as selected.
C3_SecondTapIsNoOp ==
    [][hasUserSelection_ =>
          /\ analyticsEvents' = analyticsEvents
          /\ optionsData_' = optionsData_
          /\ SelectionRequested' = SelectionRequested]_vars

\* C4 (as stated): no state has a tap past the "already selected" check of
\* handleTap_ while hasUserSelection_ is still false.
C4_LockedInsideTapHandler == reactions # <<>> => hasUserSelection_

\* C4 (amended): handleTap_ only registers a reaction on backendDataPromise_;
\* as long as that promise has not settled, no tap has locked the widget:
\* hasUserSelection_ is false, and nothing was emitted, queued or rendered.
C4_LockOnlyAfterSettle ==
    ~Settled =>
        /\ ~hasUserSelection_
        /\ analyticsEvents = <<>>
        /\ postRequests = <<>>
        /\ SelectionRequested = {}

\* C4 witness: a tap past the check while the retrieval is pending
C4_Witness ==
    backendDataPromise_ = "pending" /\ reactions # <<>> /\ ~hasUserSelection_

\* C5 (as stated): when the reaction of a tap on option i runs after a
\* retrieval that flagged another option, option i ends up flagged in
\* optionsData_ and rendered as selected.
C5_UserTapWins ==
    [][(MicrotaskPending /\ RemoteSelected # {}
            /\ Head(reactions) \notin RemoteSelected
            /\ reactions' = Tail(reactions)) =>
          /\ Head(reactions) \in SelectionRequested'
          /\ Head(reactions) \in SelectedByUser(optionsData_'.entries)]_vars

\* C5 (amended): when the reaction of a tap on option i runs after a
\* retrieval that flagged another option, the remote entry stays the
\* selection: the reaction changes nothing (flag, entries, analytics, POST,
\* render queue) and every option about to be rendered as selected is one
\* the payload flagged.
C5_RemoteSelectionWins ==
    [][(MicrotaskPending /\ RemoteSelected # {}
            /\ Head(reactions) \notin RemoteSelected
            /\ reactions' = Tail(reactions)) =>
          /\ UNCHANGED <<hasUserSelection_, optionsData_, analyticsEvents,
                         postRequests, mutateQueue>>
          /\ hasUserSelection_
          /\ optionsData_ = Data(VisibleOptions(response.options))
          /\ SelectionRequested' = RemoteSelected]_vars

\* C5 witness: the reaction of a tap on an option the payload did not flag is
\* about to run
C5_Witness ==
    /\ MicrotaskPending
    /\ RemoteSelected # {}
    /\ Head(reactions) \notin RemoteSelected

\* C6 (as stated): when a tap has locked a widget with a valid endpoint
\* (its analytics event was emitted), a POST request was issued.
C6_TapLockPosts ==
    (endpoint = "valid" /\ analyticsEvents # <<>>) => postRequests # <<>>

\* C7: at most one POST request is ever issued; once one was issued no other
\* follows (no resend), and the step in which a POST fails leaves
\* hasUserSelection_ and the stored entries as they were.
C7_AtMostOnePost ==
    [][/\ Len(postRequests') <= 1
       /\ (postRequests # <<>> => Len(postRequests') = Len(postRequests))
       /\ ((\E k \in 1..Len(postRequests) :
               postRequests[k].status = "inflight"
               /\ postRequests'[k].status = "failed") =>
             UNCHANGED <<hasUserSelection_, optionsData_>>)]_vars

\* C7 witness: the POST failed after two taps were queued on the pending promise
C7_Witness ==
    /\ Len(postRequests) = 1
    /\ postRequests[1].status = "failed"
    /\ hasUserSelection_
    /\ taps >= 2

\* C8: after a failed retrieval, the reaction of a tap on option i that finds
\* the widget unlocked locks it with no remote data stored and requests option i to be rendered as
\* selected; the mutateElement callback then renders it and puts the root
\* in the post-selection state without the has-data class.
C8_FailedRetrievalDoesNotBlock ==
    [][/\ (MicrotaskPending /\ RetrievalFailed /\ ~hasUserSelection_
               /\ reactions' = Tail(reactions)) =>
             /\ hasUserSelection_'
             /\ optionsData_' = NullData
             /\ Head(reactions) \in SelectionRequested'
       /\ (RetrievalFailed /\ mutateQueue # <<>> /\ mutateQueue' = Tail(mutateQueue)) =>
             /\ Head(mutateQueue).option \in selectedOptions'
             /\ rootClasses' = {"post-selection"}]_vars

\* C8 witness: retrieval failed, a tap was handled and rendered
C8_Witness ==
    /\ RetrievalFailed
    /\ hasUserSelection_
    /\ selectedOptions # {}
    /\ optionsData_ = NullData

\* C9: the step in which the retrieval delivers a payload without the options
\* field (or no payload) leaves hasUserSelection_ false and optionsData_ null,
\* and queues or performs no render.
C9_InvalidPayloadChangesNothing ==
    [][(backendDataPromise_ = "pending"
            /\ response'.kind \in {"noOptions", "requestError"}) =>
          /\ ~hasUserSelection_'
          /\ optionsData_' = NullData
          /\ mutateQueue' = <<>>
          /\ percentageUpdates' = <<>>
          /\ selectedOptions' = {}
          /\ rootClasses' = {}]_vars

\* C9 witness: the payload without options has arrived, no tap handled yet
C9_Witness ==
    /\ response.kind = "noOptions"
    /\ Settled
    /\ analyticsEvents = <<>>
    /\ ~hasUserSelection_

\* C10: once a retrieval has stored a retained entry flagged selectedByUser,
\* the widget is locked, the stored entries are the retained payload, every
\* flagged entry is rendered as selected or queued to be (and nothing else
\* is), every percentage update is passed that payload's entries, and no
\* analytics event and no POST request is ever issued.
C10_RemoteSelectionLocks ==
    RemoteSelected # {} =>
        /\ hasUserSelection_
        /\ optionsData_ = Data(VisibleOptions(response.options))
        /\ SelectionRequested = RemoteSelected
        /\ (mutateQueue = <<>> =>
               /\ selectedOptions = RemoteSelected
               /\ rootClasses = {"post-selection", "has-data"}
               /\ Len(percentageUpdates) = Cardinality(RemoteSelected))
        /\ \A k \in 1..Len(percentageUpdates) :
               percentageUpdates[k] = VisibleOptions(response.options)
        /\ analyticsEvents = <<>>
        /\ postRequests = <<>>

\* C10 witness: the remote selection is rendered and every tap was spent on
\* the locked widget
C10_Witness ==
    /\ RemoteSelected # {}
    /\ mutateQueue = <<>>
    /\ reactions = <<>>
    /\ selectedOptions # {}
    /\ taps = MaxTaps

\* C11: when the retrieved payload flags at most one entry, at most one entry
\* of optionsData_ is flagged selectedByUser in every reachable state.
C11_SingleSelection ==
    (response.kind = "options"
         => Cardinality(SelectedByUser(response.options)) <= 1) =>
        Cardinality(SelectedByUser(optionsData_.entries)) <= 1

\* C11 witness: remote data without a flag, a tap flagged its entry, and a
\* further tap was delivered and left no reaction behind
C11_Witness ==
    /\ RemoteSelected = {}
    /\ Cardinality(SelectedByUser(optionsData_.entries)) = 1
    /\ taps >= 2
    /\ reactions = <<>>
    /\ Len(analyticsEvents) = 1

\* C12: for every count vector with positive total, two options with equal
\* counts receive the same percentage.
C12_TiesNeverSplit ==
    (computed /\ SumSeq(counts) > 0) =>
        \A i, j \in DOMAIN counts :
            counts[i] = counts[j] => finalPercentages[i] = finalPercentages[j]

\* C12 witness: the tie group of two is larger than the one point left
C12_Witness ==
    computed /\ counts = <<1, 1, 4>> /\ finalPercentages = <<16, 16, 67>>

\* C13: for every count vector with positive total the result has the length
\* of the input and every entry is a defined integer from 0 to 100.
C13_DefinedAndInRange ==
    (computed /\ SumSeq(counts) > 0) =>
        /\ Len(finalPercentages) = Len(counts)
        /\ \A i \in DOMAIN counts :
               /\ finalPercentages[i] \notin {NaN, Undefined}
               /\ finalPercentages[i] >= 0
               /\ finalPercentages[i] <= Hundred

\* C13 witness: the budget is spent on the first entry, the other is floored
\* after the loop
C13_Witness ==
    computed /\ counts = <<3, 5>> /\ finalPercentages = <<37, 63>>

\* C14: an option whose raw percentage is a whole number (100 * count is
\* divisible by the total) is given exactly that number.
C14_WholePercentageKept ==
    (computed /\ SumSeq(counts) > 0) =>
        \A i \in DOMAIN counts :
            (Hundred * counts[i]) % SumSeq(counts) = 0 =>
                finalPercentages[i] = (Hundred * counts[i]) \div SumSeq(counts)

\* C14 witness: the loop reaches the whole 50 with budget left and floors it
C14_Witness ==
    computed /\ counts = <<1, 1, 1, 3>> /\ finalPercentages = <<16, 16, 16, 50>>

\* the sum of the floored raw percentages, after the "divide remainders by
\* three" step
FloorTotal(cs) ==
    LET t == SumSeq(cs)
        p == CorrectedPercentages([i \in DOMAIN cs |-> ToFixedRatio(cs[i], t)])
    IN SumSeq([i \in DOMAIN cs |-> MathFloor(p[i])])

\* C15 (as stated): for counts that total 0 the result holds defined
\* integers, never a not-a-number value.
C15_ZeroTotalFallback ==
    (computed /\ SumSeq(counts) = 0) =>
        \A i \in DOMAIN counts :
            finalPercentages[i] # NaN /\ finalPercentages[i] # Undefined

\* C17 (as stated): when the rounded sum is not 100, the budget of the
\* largest-remainder step is 100 minus the sum of the floored percentages,
\* and the counts [2,5,1,5] get percentages that sum to 100.
C17_BudgetIsFloorRemainder ==
    (computed /\ SumSeq(counts) > 0 /\ RoundedTotal(counts) # Hundred) =>
        /\ RemainderBudget(RoundedTotal(counts)) = Hundred - FloorTotal(counts)
        /\ (counts = <<2, 5, 1, 5>> => SumSeq(finalPercentages) = Hundred)

\* C18 (as stated): an option with at least as many responses as another
\* never gets a lower percentage.
C18_OrderPreserved ==
    (computed /\ SumSeq(counts) > 0) =>
        \A i, j \in DOMAIN counts :
            counts[i] >= counts[j] => finalPercentages[i] >= finalPercentages[j]

\* C16 (as stated): when a tap has locked a widget that has no remote data
\* (no endpoint, or the retrieval failed), the store holds an entry with
\* totalCount 1 that is flagged selectedByUser.
C16_LocalEntrySynthesized ==
    ((endpoint = "none" \/ RetrievalFailed) /\ analyticsEvents # <<>>) =>
        /\ ~optionsData_.isNull
        /\ \E k \in 1..Len(optionsData_.entries) :
               optionsData_.entries[k] = Entry(1, TRUE)

\* C16 (amended): without remote data (no endpoint, or the retrieval failed)
\* no entry is ever created: optionsData_ stays null before and after the tap
\* that locks the widget, no percentages are rendered and the root never gets
\* the has-data class; the tap still locks the widget.
C16_NoLocalEntry ==
    (endpoint = "none" \/ RetrievalFailed) =>
        /\ optionsData_ = NullData
        /\ percentageUpdates = <<>>
        /\ "has-data" \notin rootClasses
        /\ (analyticsEvents # <<>> => hasUserSelection_)

\* C16 witness: no endpoint, a tap locked the widget and was rendered
C16_Witness ==
    /\ endpoint = "none"
    /\ hasUserSelection_
    /\ analyticsEvents # <<>>
    /\ "post-selection" \in rootClasses
    /\ optionsData_.isNull

\* C19: once optionsData_ holds entries, no step removes an entry or lowers a
\* totalCount; and the reaction of a tap on option i that locks the widget,
\* with an entry for i present, raises that entry's totalCount by exactly 1,
\* sets its selectedByUser and leaves every other entry as it was.
C19_LocalIncrementOnly ==
    [][~optionsData_.isNull =>
          /\ ~optionsData_'.isNull
          /\ Len(optionsData_'.entries) = Len(optionsData_.entries)
          /\ \A k \in 1..Len(optionsData_.entries) :
                 optionsData_'.entries[k].totalCount >=
                     optionsData_.entries[k].totalCount
          /\ (/\ MicrotaskPending
              /\ ~hasUserSelection_
              /\ reactions' = Tail(reactions)
              /\ Head(reactions) <= Len(optionsData_.entries)) =>
                 \A k \in 1..Len(optionsData_.entries) :
                     IF k = Head(reactions)
                     THEN /\ optionsData_'.entries[k].totalCount =
                                 optionsData_.entries[k].totalCount + 1
                          /\ optionsData_'.entries[k].selectedByUser
                     ELSE optionsData_'.entries[k] = optionsData_.entries[k]]_vars

\* C19 witness: a tap raised a retrieved count above what a payload can hold
C19_Witness ==
    /\ ~optionsData_.isNull
    /\ hasUserSelection_
    /\ \E k \in 1..Len(optionsData_.entries) :
           /\ optionsData_.entries[k] = Entry(MaxRemoteCount + 1, TRUE)
           /\ analyticsEvents = <<k>>
    /\ \E k \in 1..Len(optionsData_.entries) :
           optionsData_.entries[k].totalCount > 0
           /\ ~optionsData_.entries[k].selectedByUser

\* C20: a tap on an option that got past handleTap_ after layoutCallback (its
\* reaction is registered on backendDataPromise_) is eventually followed by
\* the locked post-selection state: the promise has settled,
\* hasUserSelection_ is true and some option is rendered as selected; and no
\* tap takes effect (analytics event, render request) before the promise has
\* settled.
C20_TapLeadsToLock ==
    /\ (reactions # <<>>) ~>
           (Settled /\ hasUserSelection_ /\ selectedOptions # {}
                /\ "post-selection" \in rootClasses)
    /\ []((analyticsEvents # <<>> \/ SelectionRequested # {}) => Settled)

\* C20 witness: the only tap, on a widget whose retrieval brought entries, has
\* locked the widget and is rendered
C20_Witness ==
    /\ endpoint = "valid"
    /\ response.kind = "options"
    /\ analyticsEvents # <<>>
    /\ hasUserSelection_
    /\ analyticsEvents[1] \in selectedOptions
    /\ reactions = <<>>
    /\ taps = 1

\* the total of the independently rounded percentages, before the "divide
\* remainders by three" step
IndependentTotal(cs) ==
    LET t == SumSeq(cs)
    IN SumSeq([i \in DOMAIN cs |-> MathRound(ToFixedRatio(cs[i], t))])

\* C21: for every count vector with positive total the returned percentages
\* sum to at most 100; in particular when the independently rounded
\* percentages total more than 100 and the remainders are divided by three,
\* the corrected percentages round to at most 100 and the result still sums
\* to at most 100.
C21_NeverOvershoots ==
    (computed /\ SumSeq(counts) > 0) =>
        /\ SumSeq(finalPercentages) <= Hundred
        /\ (IndependentTotal(counts) > Hundred =>
               /\ RoundedTotal(counts) <= Hundred
               /\ SumSeq(finalPercentages) <=
                      FloorTotal(counts) + RemainderBudget(RoundedTotal(counts)))

\* C21 witness: independent rounding gives 13 + 13 + 13 + 63 = 102, the
\* correction brings it to 98 and the tie group of three is left unrounded
C21_Witness ==
    /\ computed
    /\ counts = <<1, 1, 1, 5>>
    /\ IndependentTotal(counts) > Hundred
    /\ finalPercentages = <<12, 12, 12, 63>>

====
